---- MODULE Spec2Model ----
(***************************************************************************)
(* Email-sequence progression engine of revgeni-ai-crm:                    *)
(*   - assignCompanyToSequence / removeCompanyFromSequence                 *)
(*       (src/lib/sequence-assignment.ts)                                  *)
(*   - the cron handler GET with findEmailsDueToday, sendScheduledEmail    *)
(*       and updateNextSendDate (the email cron route)                     *)
(*   - the mail send endpoint POST the cron calls over HTTP                *)
(* Time is a tick counter; a calendar day is TicksPerDay ticks, the first  *)
(* tick of a day is 00:00:00 and the last one is 23:59:59.                 *)
(*   - the assign-companies route POST (batch assignment)                  *)
(* Spec runs the handlers one at a time: Assign, Remove/pause and the      *)
(* clock move only while no cron pass is in progress, and one company is   *)
(* enrolled.  Database and provider failures are choices of each step.     *)
(* OverlapSpec adds the pause between the awaits of a cron pass.           *)
(* BatchSpec runs cron passes over both companies within one tick.         *)
(* SendSpec runs the mail send endpoint with both of its callers.          *)
(* ApiSpec runs the assign-companies route.                                *)
(* RenderSpec applies replaceEmailVariables (src/lib/nango.ts) to bounded  *)
(* templates and values; TraceSpec runs traceOperation                     *)
(* (src/lib/langfuse-helpers.ts) await by await.                           *)
(* AssignRaceSpec runs concurrent Assign calls with lookup and create as   *)
(* separate steps; TwoPassSpec interleaves two invocations of the cron     *)
(* handler; DeliverySpec records what the provider delivered over passes   *)
(* run one after another; DailySpec has a pass on every calendar day.      *)
(***************************************************************************)
EXTENDS Integers, Sequences, FiniteSets, TLC

VARIABLES
  now,          \* the wall clock (new Date())
  steps,        \* EmailSequence.steps: sequence id -> list of step delays (days)
  assignments,  \* the CompanySequence table, row i has id i
  outbox,       \* the OutboxEmail table (the Run Log), in creation order
  cron,         \* the cron handler's local state
  resp,         \* the response a handler returns in this step (NoResponse otherwise)
  sentOk,       \* history: per row, how many times the cron applied its progression update
  parked,       \* the local state of a second cron invocation that is awaiting
  creating,     \* Assign calls that passed their lookup and have not created yet
  delivered,    \* history: the <<row id, step index>> pairs a provider call delivered
  fired         \* history: a pass of the trigger endpoint has answered since midnight

vars == <<now, steps, assignments, outbox, cron, resp, sentOk, parked, creating,
          delivered, fired>>

\* ---------------------------------------------------------------- bounds
TicksPerDay == 2
MaxTime == 4
MaxSteps == 2
MaxDelay == 2
MaxLog == 2

\* ---------------------------------------------------------------- data
NULL == -1

CompanyIds == {"c1", "c2"}
\* the companies the single-assignment specification enrols
SoloCompanyIds == {"c1"}
UnknownCompanyId == "cX"
SequenceIds == {"s1"}
UnknownSequenceId == "sX"
OrgIds == {"demo-org"}

Delays == 0..MaxDelay

StepLists == UNION {[1..n -> Delays] : n \in 1..MaxSteps}

\* steps[currentStep] of a sequence, zero-based as in the code
StepAt(sequenceId, i) == steps[sequenceId][i + 1]

StepCount(sequenceId) == Len(steps[sequenceId])

\* new Date(now.getFullYear(), now.getMonth(), now.getDate())
StartOfDay(t) == t - (t % TicksPerDay)

\* mutant: the delay is added in clock ticks, not in calendar days
AddDays_Ticks(t, n) == t + n

\* date.setDate(date.getDate() + n)
AddDays(t, n) == t + n * TicksPerDay

LogSent == [status |-> "sent", sequenceId |-> "test-sequence",
            companyId |-> "none", stepIndex |-> 0]

LogFailed(emailData) ==
  [status |-> "failed", sequenceId |-> emailData.sequenceId,
   companyId |-> emailData.companyId, stepIndex |-> emailData.currentStep]

\* attempts and logStart are history: the dispatch outcome of each item so far,
\* and the length of the Run Log when the pass started
CronIdle == [pc |-> "idle", batch |-> <<>>, idx |-> 0,
             sentCount |-> 0, errorCount |-> 0, attempts |-> <<>>, logStart |-> 0]

NoResponse == [op |-> "none"]

Init ==
  /\ now = 0
  /\ steps \in [SequenceIds -> StepLists]
  /\ assignments = <<>>
  /\ outbox = <<>>
  /\ cron = CronIdle
  /\ resp = NoResponse
  /\ sentOk = <<>>
  /\ parked = CronIdle
  /\ creating = <<>>
  /\ delivered = {}
  /\ fired = FALSE

\* ---------------------------------------------------------------- clock
\* the clock moves between handlers; a pass reads one value of new Date()
ClockTick ==
  /\ now < MaxTime
  /\ cron.pc = "idle"
  /\ now' = now + 1
  /\ resp' = NoResponse
  /\ UNCHANGED <<steps, assignments, outbox, cron, sentOk, parked, creating, delivered>>

Tick ==
  /\ ClockTick
  /\ UNCHANGED fired

\* ---------------------------------------------------------------- Assign
\* mutant: the lookup sees only active rows
Existing_ActiveOnly(rows, companyId, sequenceId) ==
  {i \in 1..Len(rows) :
     /\ rows[i].companyId = companyId
     /\ rows[i].sequenceId = sequenceId
     /\ rows[i].status = "active"}

\* prisma.companySequence.findFirst({ where: { companyId, sequenceId } })
Existing(rows, companyId, sequenceId) ==
  {i \in 1..Len(rows) :
     rows[i].companyId = companyId /\ rows[i].sequenceId = sequenceId}

FirstOf(S) == CHOOSE i \in S : \A j \in S : i <= j

\* prisma.companySequence.create({ data: { ... } })
NewAssignment(id, companyId, sequenceId, orgId, t) ==
  [id |-> id, companyId |-> companyId, sequenceId |-> sequenceId,
   orgId |-> orgId, currentStep |-> 0, status |-> "active",
   startedAt |-> t, nextSendAt |-> t, completedAt |-> NULL]

\* a falsy id (!companyId, !sequenceId)
MissingId == ""

\* the tenant a company and a sequence were created in (Company.orgId,
\* EmailSequence.orgId: the orgId of the GraphQL context that created them)
CompanyOrg == [c \in CompanyIds |-> IF c = "c1" THEN "demo-org" ELSE "org-2"]
SequenceOrg == [s \in SequenceIds |-> "demo-org"]

\* one call of assignCompanyToSequence as the assign-companies loop makes it,
\* on table rows at time t: what it throws or returns, and the table after
\* it; dbOk = FALSE is a query that throws
AssignCall(rows, companyId, sequenceId, orgId, t, dbOk) ==
  IF companyId = MissingId \/ sequenceId = MissingId \/ orgId = MissingId
    THEN [ok |-> FALSE, error |-> "Missing required fields", id |-> NULL, rows |-> rows]
  ELSE IF ~dbOk
    THEN [ok |-> FALSE, error |-> "Database error", id |-> NULL, rows |-> rows]
  ELSE IF companyId \notin CompanyIds
    THEN [ok |-> FALSE, error |-> "Company not found", id |-> NULL, rows |-> rows]
  ELSE IF sequenceId \notin SequenceIds
    THEN [ok |-> FALSE, error |-> "Email sequence not found", id |-> NULL, rows |-> rows]
  ELSE IF Existing(rows, companyId, sequenceId) # {}
    THEN [ok |-> TRUE, error |-> "none",
          id |-> FirstOf(Existing(rows, companyId, sequenceId)), rows |-> rows]
  ELSE LET row == NewAssignment(Len(rows) + 1, companyId, sequenceId, orgId, t)
       IN [ok |-> TRUE, error |-> "none", id |-> row.id, rows |-> Append(rows, row)]

\* sentOk grown by a zero for every row the table gained
GrownSentOk(rows) == sentOk \o [k \in 1..(Len(rows) - Len(sentOk)) |-> 0]

assignCompanyToSequence(companyId, sequenceId, orgId) ==
  /\ cron.pc = "idle"
  /\ IF companyId \notin CompanyIds
       THEN /\ resp' = [op |-> "assign", ok |-> FALSE, error |-> "Company not found"]
            /\ UNCHANGED <<assignments, sentOk>>
     ELSE IF sequenceId \notin SequenceIds
       THEN /\ resp' = [op |-> "assign", ok |-> FALSE, error |-> "Email sequence not found"]
            /\ UNCHANGED <<assignments, sentOk>>
     ELSE IF Existing(assignments, companyId, sequenceId) # {}
       THEN /\ resp' = [op |-> "assign", ok |-> TRUE,
                        id |-> FirstOf(Existing(assignments, companyId, sequenceId))]
            /\ UNCHANGED <<assignments, sentOk>>
     ELSE LET row == NewAssignment(Len(assignments) + 1, companyId, sequenceId, orgId, now)
          IN /\ assignments' = Append(assignments, row)
             /\ sentOk' = Append(sentOk, 0)
             /\ resp' = [op |-> "assign", ok |-> TRUE, id |-> row.id]
  /\ UNCHANGED <<now, steps, outbox, cron, parked, creating, delivered, fired>>

\* ---------------------------------------------------------------- assign-companies API
\* const orgId = 'demo-org'
ApiOrgId == "demo-org"

\* mutant: the loop ends at the first item that throws
RECURSIVE AssignEach_StopsAtError(_, _, _, _, _)
AssignEach_StopsAtError(acc, companyIds, k, sequenceId, fails) ==
  IF k > Len(companyIds) THEN acc
  ELSE LET call == AssignCall(acc.rows, companyIds[k], sequenceId, ApiOrgId, now, k \notin fails)
       IN IF call.ok
            THEN AssignEach_StopsAtError(
                   [acc EXCEPT !.rows = call.rows, !.results = Append(@, call.id)],
                   companyIds, k + 1, sequenceId, fails)
            ELSE [acc EXCEPT !.errors = Append(@, [companyId |-> companyIds[k],
                                                  error |-> call.error])]

\* the for loop of POST from item k on: acc holds the table, results (the ids
\* of the rows returned) and errors so far; fails are the items whose query throws
RECURSIVE AssignEach(_, _, _, _, _)
AssignEach(acc, companyIds, k, sequenceId, fails) ==
  IF k > Len(companyIds) THEN acc
  ELSE LET call == AssignCall(acc.rows, companyIds[k], sequenceId, ApiOrgId, now, k \notin fails)
           next == IF call.ok
                     THEN [acc EXCEPT !.rows = call.rows, !.results = Append(@, call.id)]
                     ELSE [acc EXCEPT !.errors = Append(@, [companyId |-> companyIds[k],
                                                           error |-> call.error])]
       IN AssignEach(next, companyIds, k + 1, sequenceId, fails)

\* mutant: all-failed is tested on the errors alone
AllFailed_AnyError(results, errors) == Len(errors) > 0

\* errors.length > 0 && results.length === 0
AllFailed(results, errors) == Len(errors) > 0 /\ Len(results) = 0

\* the request as POST sees it: currentUser() and the two members of the body
ApiRequest(user, body, sequenceId) ==
  [user |-> user, companyIds |-> body, sequenceId |-> sequenceId]

\* POST of the assign-companies route; user = FALSE is currentUser() giving
\* null; body.kind tells whether companyIds is missing, not an array or an
\* array; calls and request are history: the number of calls into the data
\* layer and the request answered.  An empty errors list stands for the
\* absent errors member of the payload.
PostAssignCompanies(user, body, sequenceId, fails) ==
  /\ IF ~user
       THEN /\ resp' = [op |-> "assign-companies", status |-> 401,
                        error |-> "Unauthorized - Please sign in", calls |-> 0,
                        request |-> ApiRequest(user, body, sequenceId)]
            /\ UNCHANGED <<assignments, sentOk>>
     ELSE IF body.kind # "array" \/ Len(body.ids) = 0
       THEN /\ resp' = [op |-> "assign-companies", status |-> 400,
                        error |-> "Invalid company IDs", calls |-> 0,
                        request |-> ApiRequest(user, body, sequenceId)]
            /\ UNCHANGED <<assignments, sentOk>>
     ELSE IF sequenceId = MissingId
       THEN /\ resp' = [op |-> "assign-companies", status |-> 400,
                        error |-> "Sequence ID is required", calls |-> 0,
                        request |-> ApiRequest(user, body, sequenceId)]
            /\ UNCHANGED <<assignments, sentOk>>
     ELSE LET done == AssignEach([rows |-> assignments, results |-> <<>>, errors |-> <<>>],
                                 body.ids, 1, sequenceId, fails)
          IN /\ assignments' = done.rows
             /\ sentOk' = GrownSentOk(done.rows)
             /\ resp' = IF AllFailed(done.results, done.errors)
                          THEN [op |-> "assign-companies", status |-> 500,
                                error |-> "All assignments failed",
                                details |-> done.errors, calls |-> Len(body.ids),
                                request |-> ApiRequest(user, body, sequenceId)]
                          ELSE [op |-> "assign-companies", status |-> 200, success |-> TRUE,
                                assigned |-> Len(done.results), failed |-> Len(done.errors),
                                results |-> done.results, errors |-> done.errors,
                                calls |-> Len(body.ids),
                                request |-> ApiRequest(user, body, sequenceId)]
  /\ UNCHANGED <<now, steps, outbox, cron, parked, creating, delivered, fired>>

\* ---------------------------------------------------------------- Remove/pause
\* mutant: pausing also clears the schedule
PauseRows_ClearsSchedule(rows, companyId, sequenceId) ==
  [i \in 1..Len(rows) |->
     IF rows[i].companyId = companyId /\ rows[i].sequenceId = sequenceId
       THEN [rows[i] EXCEPT !.status = "paused", !.nextSendAt = NULL]
       ELSE rows[i]]

\* prisma.companySequence.updateMany({ where: { companyId, sequenceId }, data: { status: 'paused' } })
PauseRows(rows, companyId, sequenceId) ==
  [i \in 1..Len(rows) |->
     IF rows[i].companyId = companyId /\ rows[i].sequenceId = sequenceId
       THEN [rows[i] EXCEPT !.status = "paused"]
       ELSE rows[i]]

removeCompanyFromSequence(companyId, sequenceId) ==
  /\ assignments' = PauseRows(assignments, companyId, sequenceId)
  /\ resp' = [op |-> "pause", count |-> Cardinality(Existing(assignments, companyId, sequenceId))]
  /\ UNCHANGED <<now, steps, outbox, cron, sentOk, parked, creating, delivered, fired>>

\* ---------------------------------------------------------------- mail send endpoint
NoConnection == "none"
\* what userConnection.findFirst comes to: a row's nangoConnectionId, null, or a throw
Lookups == {"conn-user", NoConnection, "error"}
\* process.env.NANGO_CONNECTION_ID, set or not
DefaultConnections == {"conn-env", NoConnection}

\* mutant: the default connection is tried first
getUserConnectionId_DefaultFirst(lookup, defaultConnection) ==
  IF defaultConnection # NoConnection THEN defaultConnection
  ELSE IF lookup \notin {NoConnection, "error"} THEN lookup
  ELSE NoConnection

\* getUserConnectionId(userId): the row found, else the environment's id, else null
getUserConnectionId(lookup, defaultConnection) ==
  IF lookup \notin {NoConnection, "error"} THEN lookup ELSE defaultConnection

\* the path POST takes: the throw on no connection, if (nango), nango.post and its catch
SendOutcome(connectionId, nangoConfigured, providerOk) ==
  IF connectionId = NoConnection THEN "no_connection"
  ELSE IF ~nangoConfigured THEN "mock_unconfigured"
  ELSE IF providerOk THEN "nango"
  ELSE "mock_provider_error"

\* mutant: the mock response also logs the email as sent
WritesSentLog_AnySuccess(outcome, logOk) ==
  outcome \in {"nango", "mock_unconfigured", "mock_provider_error"} /\ logOk

\* prisma.outboxEmail.create({ ... status: 'sent' }) sits after nango.post, in a
\* try of its own whose catch only warns
WritesSentLog(outcome, logOk) == outcome = "nango" /\ logOk

\* mutant: a provider error is reported in mode nango
SendMode_NangoOnProviderError(outcome) ==
  IF outcome = "mock_unconfigured" THEN "mock" ELSE "nango"

\* the mode field of the two success responses
SendMode(outcome) == IF outcome = "nango" THEN "nango" ELSE "mock"

\* how the call of nango.post went (history, not part of the payload)
ProviderCall(outcome) ==
  IF outcome = "nango" THEN "returned"
  ELSE IF outcome = "mock_provider_error" THEN "threw"
  ELSE "not_called"

\* NextResponse.json(...) of POST; connectionId (the id nango.post is given
\* when it is called), provider and request are history
SendResponse(outcome, connectionId, request) ==
  IF outcome = "no_connection"
    THEN [op |-> "send", status |-> 500, success |-> FALSE, mode |-> "none",
          error |-> "No Gmail connection found",
          connectionId |-> connectionId, provider |-> ProviderCall(outcome),
          request |-> request]
    ELSE [op |-> "send", status |-> 200, success |-> TRUE, mode |-> SendMode(outcome),
          error |-> "none",
          connectionId |-> connectionId, provider |-> ProviderCall(outcome),
          request |-> request]

\* POST of the mail send endpoint, called directly
PostEmailSend(lookup, defaultConnection, nangoConfigured, providerOk, logOk) ==
  LET connectionId == getUserConnectionId(lookup, defaultConnection)
      outcome == SendOutcome(connectionId, nangoConfigured, providerOk)
      request == [lookup |-> lookup, defaultConnection |-> defaultConnection]
  IN /\ outbox' = IF WritesSentLog(outcome, logOk) THEN Append(outbox, LogSent) ELSE outbox
     /\ resp' = SendResponse(outcome, connectionId, request)
     /\ UNCHANGED <<now, steps, assignments, cron, sentOk, parked, creating, delivered, fired>>

\* ---------------------------------------------------------------- cron pass
\* mutant: the window's upper bound is inclusive (lte: tomorrow)
IsDue_LteTomorrow(r, t) ==
  LET today == StartOfDay(t)
      tomorrow == AddDays(today, 1)
  IN /\ r.status = "active"
     /\ r.nextSendAt # NULL
     /\ r.nextSendAt >= today
     /\ r.nextSendAt <= tomorrow

\* mutant: the window has no lower bound (overdue rows stay due)
IsDue_NoLowerBound(r, t) ==
  LET today == StartOfDay(t)
      tomorrow == AddDays(today, 1)
  IN /\ r.status = "active"
     /\ r.nextSendAt # NULL
     /\ r.nextSendAt < tomorrow

\* where: { status: 'active', nextSendAt: { gte: today, lt: tomorrow } }
IsDue(r, t) ==
  LET today == StartOfDay(t)
      tomorrow == AddDays(today, 1)
  IN /\ r.status = "active"
     /\ r.nextSendAt # NULL
     /\ r.nextSendAt >= today
     /\ r.nextSendAt < tomorrow

findEmailsDueToday(rows, t) == SelectSeq(rows, LAMBDA r : IsDue(r, t))

\* mutant: the next send is scheduled with the delay of the step just sent
updateNextSendDate_DelayOfSentStep(rows, emailData, t) ==
  LET id == emailData.id
      nextStepIndex == emailData.currentStep + 1
  IN IF nextStepIndex >= StepCount(emailData.sequenceId)
       THEN [rows EXCEPT ![id] = [@ EXCEPT !.status = "completed",
                                           !.completedAt = t,
                                           !.nextSendAt = NULL]]
       ELSE [rows EXCEPT ![id] = [@ EXCEPT !.currentStep = nextStepIndex,
                                           !.nextSendAt = AddDays(t, StepAt(emailData.sequenceId, emailData.currentStep))]]

\* mutant: completing also writes the step index past the last step
updateNextSendDate_AdvancesOnComplete(rows, emailData, t) ==
  LET id == emailData.id
      nextStepIndex == emailData.currentStep + 1
  IN IF nextStepIndex >= StepCount(emailData.sequenceId)
       THEN [rows EXCEPT ![id] = [@ EXCEPT !.status = "completed",
                                           !.currentStep = nextStepIndex,
                                           !.completedAt = t,
                                           !.nextSendAt = NULL]]
       ELSE [rows EXCEPT ![id] = [@ EXCEPT !.currentStep = nextStepIndex,
                                           !.nextSendAt = AddDays(t, StepAt(emailData.sequenceId, nextStepIndex))]]

\* mutant: the update applies only to a row that is still active
updateNextSendDate_KeepsPaused(rows, emailData, t) ==
  LET id == emailData.id
      nextStepIndex == emailData.currentStep + 1
  IN IF rows[id].status # "active"
       THEN rows
     ELSE IF nextStepIndex >= StepCount(emailData.sequenceId)
       THEN [rows EXCEPT ![id] = [@ EXCEPT !.status = "completed",
                                           !.completedAt = t,
                                           !.nextSendAt = NULL]]
       ELSE [rows EXCEPT ![id] = [@ EXCEPT !.currentStep = nextStepIndex,
                                           !.nextSendAt = AddDays(t, StepAt(emailData.sequenceId, nextStepIndex))]]

\* the two prisma.companySequence.update calls of updateNextSendDate
updateNextSendDate(rows, emailData, t) ==
  LET id == emailData.id
      nextStepIndex == emailData.currentStep + 1
  IN IF nextStepIndex >= StepCount(emailData.sequenceId)
       THEN [rows EXCEPT ![id] = [@ EXCEPT !.status = "completed",
                                           !.completedAt = t,
                                           !.nextSendAt = NULL]]
       ELSE [rows EXCEPT ![id] = [@ EXCEPT !.currentStep = nextStepIndex,
                                           !.nextSendAt = AddDays(t, StepAt(emailData.sequenceId, nextStepIndex))]]

\* what one call of the send endpoint can come to, seen from the cron
DispatchOutcomes ==
  {"nango",               \* nango.post returned: 200, mode nango
   "mock_unconfigured",   \* nango client is null: 200, mode mock
   "mock_provider_error", \* nango.post threw, caught: 200, mode mock
   "no_connection",       \* getUserConnectionId gave null: 500
   "network_error"}       \* fetch itself rejected

ResponseOk(outcome) == outcome \in {"nango", "mock_unconfigured", "mock_provider_error"}

\* mutant: the error is swallowed and the pass reports an empty batch
CronFailure_EmptySuccess ==
  [op |-> "cron", success |-> TRUE, status |-> 200, processed |-> 0, sent |-> 0, failed |-> 0]

\* the response of GET's outer catch
CronFailure == [op |-> "cron", success |-> FALSE, status |-> 500]

AfterItem(c) ==
  IF c.idx < Len(c.batch) THEN [c EXCEPT !.idx = c.idx + 1, !.pc = "send"]
                          ELSE [c EXCEPT !.idx = c.idx + 1, !.pc = "respond"]

CronStart ==
  /\ cron.pc = "idle"
  /\ \E dbOk \in BOOLEAN :
       IF dbOk
         THEN LET emailsToSend == findEmailsDueToday(assignments, now)
              IN /\ Len(outbox) < MaxLog
                 /\ cron' = [pc |-> IF emailsToSend = <<>> THEN "respond" ELSE "send",
                             batch |-> emailsToSend, idx |-> 1,
                             sentCount |-> 0, errorCount |-> 0, attempts |-> <<>>,
                             logStart |-> Len(outbox)]
                 /\ resp' = NoResponse
         ELSE /\ resp' = CronFailure
              /\ UNCHANGED cron
  /\ UNCHANGED <<now, steps, assignments, outbox, sentOk, parked, creating, delivered, fired>>

\* sendScheduledEmail(emailData), with the send endpoint it calls
sendScheduledEmail ==
  /\ cron.pc = "send"
  /\ LET emailData == cron.batch[cron.idx]
     IN IF emailData.currentStep >= StepCount(emailData.sequenceId)
          THEN /\ cron' = [cron EXCEPT !.pc = "catch",
                                       !.attempts = Append(@, "no_step")]
               /\ UNCHANGED outbox
          ELSE \E outcome \in DispatchOutcomes, logOk \in BOOLEAN :
                 /\ outbox' = IF WritesSentLog(outcome, logOk)
                                THEN Append(outbox, LogSent) ELSE outbox
                 /\ cron' = [cron EXCEPT !.pc = IF ResponseOk(outcome) THEN "update" ELSE "catch",
                                         !.attempts = Append(@, outcome)]
  /\ resp' = NoResponse
  /\ UNCHANGED <<now, steps, assignments, sentOk, parked, creating>>

\* the loop's call of sendScheduledEmail
CronSend ==
  /\ sendScheduledEmail
  /\ UNCHANGED <<delivered, fired>>

\* mutant: the item is counted as sent before its update is awaited
CronUpdate_CountsBeforeUpdate ==
  /\ cron.pc = "update"
  /\ LET emailData == cron.batch[cron.idx]
     IN \E dbOk \in BOOLEAN :
          IF dbOk
            THEN /\ assignments' = updateNextSendDate(assignments, emailData, now)
                 /\ sentOk' = [sentOk EXCEPT ![emailData.id] = @ + 1]
                 /\ cron' = AfterItem([cron EXCEPT !.sentCount = @ + 1])
            ELSE /\ cron' = [cron EXCEPT !.pc = "catch", !.sentCount = @ + 1]
                 /\ UNCHANGED <<assignments, sentOk>>
  /\ resp' = NoResponse
  /\ UNCHANGED <<now, steps, outbox, parked, creating, delivered, fired>>

\* await updateNextSendDate(emailData); sentCount++
CronUpdate ==
  /\ cron.pc = "update"
  /\ LET emailData == cron.batch[cron.idx]
     IN \E dbOk \in BOOLEAN :
          IF dbOk
            THEN /\ assignments' = updateNextSendDate(assignments, emailData, now)
                 /\ sentOk' = [sentOk EXCEPT ![emailData.id] = @ + 1]
                 /\ cron' = AfterItem([cron EXCEPT !.sentCount = @ + 1])
            ELSE /\ cron' = [cron EXCEPT !.pc = "catch"]
                 /\ UNCHANGED <<assignments, sentOk>>
  /\ resp' = NoResponse
  /\ UNCHANGED <<now, steps, outbox, parked, creating, delivered, fired>>

\* catch (error) { errorCount++; await prisma.outboxEmail.create({ ... status: 'failed' }) }
CronCatch ==
  /\ cron.pc = "catch"
  /\ LET emailData == cron.batch[cron.idx]
     IN \E dbOk \in BOOLEAN :
          IF dbOk
            THEN /\ outbox' = Append(outbox, LogFailed(emailData))
                 /\ cron' = AfterItem([cron EXCEPT !.errorCount = @ + 1])
                 /\ resp' = NoResponse
            ELSE /\ resp' = CronFailure
                 /\ cron' = CronIdle
                 /\ UNCHANGED outbox
  /\ UNCHANGED <<now, steps, assignments, sentOk, parked, creating, delivered, fired>>

\* return NextResponse.json({ success: true, processed, sent, failed, ... })
RespondSuccess ==
  /\ cron.pc = "respond"
  /\ resp' = [op |-> "cron", success |-> TRUE, status |-> 200, processed |-> Len(cron.batch),
              sent |-> cron.sentCount, failed |-> cron.errorCount]
  /\ cron' = CronIdle
  /\ UNCHANGED <<now, steps, assignments, outbox, sentOk, parked, creating, delivered>>

CronRespond ==
  /\ RespondSuccess
  /\ UNCHANGED fired

\* ---------------------------------------------------------------- specification
Assign ==
  \E companyId \in SoloCompanyIds \cup {UnknownCompanyId},
     sequenceId \in SequenceIds \cup {UnknownSequenceId},
     orgId \in OrgIds :
    assignCompanyToSequence(companyId, sequenceId, orgId)

Pause ==
  /\ cron.pc = "idle"
  /\ \E companyId \in SoloCompanyIds, sequenceId \in SequenceIds :
       removeCompanyFromSequence(companyId, sequenceId)

Next ==
  \/ Tick
  \/ Assign
  \/ Pause
  \/ CronStart
  \/ CronSend
  \/ CronUpdate
  \/ CronCatch
  \/ CronRespond

Spec == Init /\ [][Next]_vars

\* ---------------------------------------------------------------- overlap
\* the pause request is a server action of its own: nothing keeps it from
\* running between two awaits of a cron pass
PauseDuringPass ==
  /\ cron.pc # "idle"
  /\ \E companyId \in SoloCompanyIds, sequenceId \in SequenceIds :
       removeCompanyFromSequence(companyId, sequenceId)

NextOverlap ==
  \/ Next
  \/ PauseDuringPass

OverlapSpec == Init /\ [][NextOverlap]_vars

\* ---------------------------------------------------------------- batches
\* cron passes over both companies, one request at a time, within one tick
\* of the clock
AssignAny ==
  \E companyId \in CompanyIds, sequenceId \in SequenceIds, orgId \in OrgIds :
    assignCompanyToSequence(companyId, sequenceId, orgId)

NextBatch ==
  \/ AssignAny
  \/ CronStart
  \/ CronSend
  \/ CronUpdate
  \/ CronCatch
  \/ CronRespond

BatchSpec == Init /\ [][NextBatch]_vars

\* ---------------------------------------------------------------- senders
\* the two callers of the mail send endpoint, a direct request and the cron,
\* one request at a time, within one tick of the clock
SendEmail ==
  /\ cron.pc = "idle"
  /\ Len(outbox) < MaxLog
  /\ \E lookup \in Lookups, defaultConnection \in DefaultConnections,
        nangoConfigured \in BOOLEAN, providerOk \in BOOLEAN, logOk \in BOOLEAN :
       PostEmailSend(lookup, defaultConnection, nangoConfigured, providerOk, logOk)

NextSend ==
  \/ Assign
  \/ SendEmail
  \/ CronStart
  \/ CronSend
  \/ CronUpdate
  \/ CronCatch
  \/ CronRespond

SendSpec == Init /\ [][NextSend]_vars

\* ---------------------------------------------------------------- assignment API
\* the assign-companies route, one request at a time
MaxIds == 2

BatchIds == CompanyIds \cup {UnknownCompanyId}

IdLists == UNION {[1..n -> BatchIds] : n \in 0..MaxIds}

\* the companyIds member of the request body
Bodies ==
  {[kind |-> "missing", ids |-> <<>>], [kind |-> "not_array", ids |-> <<>>]}
    \cup {[kind |-> "array", ids |-> l] : l \in IdLists}

\* no query throws, or the queries of one item do
FailSets == {{}} \cup {{k} : k \in 1..MaxIds}

AssignCompanies ==
  \E user \in BOOLEAN, body \in Bodies,
     sequenceId \in SequenceIds \cup {UnknownSequenceId, MissingId},
     fails \in FailSets :
    PostAssignCompanies(user, body, sequenceId, fails)

\* the route reads no step list: one sequence of one step stands for all
InitApi ==
  /\ Init
  /\ steps = [s \in SequenceIds |-> <<0>>]

NextApi == AssignCompanies

ApiSpec == InitApi /\ [][NextApi]_vars

\* ---------------------------------------------------------------- template renderer
\* A string is a list of tokens: <<"text", s>> is literal text s,
\* <<"placeholder", k>> is the text {{k}} and <<"bracketed", k>> the text [k].
MaxTemplateLen == 2
MaxValueLen == 1

\* Object.entries(variables) of the mapping POST builds: company_name,
\* contact_name, industry
Keys == <<"company_name", "contact_name", "industry">>

KeySet == {Keys[i] : i \in 1..Len(Keys)}

TemplateTokens == {<<"text", "Hi">>} \cup {<<"placeholder", k>> : k \in KeySet}

\* values may hold any text: plain, the text of a placeholder, or the
\* character pairs $$ and $& that String.prototype.replace reads as patterns
ValueTokens ==
  {<<"text", "Jane">>, <<"placeholder", "industry">>, <<"text", "$$">>, <<"text", "$&">>}

Templates == UNION {[1..n -> TemplateTokens] : n \in 0..MaxTemplateLen}

\* the empty value stands for every falsy one: '', undefined, null
Values == UNION {[1..n -> ValueTokens] : n \in 0..MaxValueLen}

\* what a token of the replacement string inserts: $$ inserts $, $& inserts
\* the matched substring
Inserted(token, key) ==
  IF token = <<"text", "$$">> THEN <<"text", "$">>
  ELSE IF token = <<"text", "$&">> THEN <<"placeholder", key>>
  ELSE token

\* value || `[${key}]`, as result.replace takes it
Replacement(key, value) ==
  IF value = <<>> THEN << <<"bracketed", key>> >>
  ELSE [i \in 1..Len(value) |-> Inserted(value[i], key)]

\* result.replace(new RegExp(`\\{\\{${key}\\}\\}`, 'g'), value || `[${key}]`)
RECURSIVE ReplaceKey(_, _, _)
ReplaceKey(str, key, value) ==
  IF str = <<>> THEN <<>>
  ELSE (IF Head(str) = <<"placeholder", key>> THEN Replacement(key, value) ELSE <<Head(str)>>)
         \o ReplaceKey(Tail(str), key, value)

\* the forEach of replaceEmailVariables from entry i on
RECURSIVE ReplaceFrom(_, _, _)
ReplaceFrom(result, variables, i) ==
  IF i > Len(Keys) THEN result
  ELSE ReplaceFrom(ReplaceKey(result, Keys[i], variables[Keys[i]]), variables, i + 1)

replaceEmailVariables(template, variables) == ReplaceFrom(template, variables, 1)

\* a request to the send endpoint, before it is handled: the subject
\* template and the mapping built from companyName, contactName, industry
RenderRequests ==
  {[op |-> "send-request", subject |-> t, variables |-> v] :
     t \in Templates, v \in [KeySet -> Values]}

InitRender ==
  /\ now = 0
  /\ steps = [s \in SequenceIds |-> <<0>>]
  /\ assignments = <<>>
  /\ outbox = <<>>
  /\ cron = CronIdle
  /\ resp \in RenderRequests
  /\ sentOk = <<>>
  /\ parked = CronIdle
  /\ creating = <<>>
  /\ delivered = {}
  /\ fired = FALSE

\* const processedSubject = replaceEmailVariables(subject, variables), as
\* the response returns it
Render ==
  /\ resp.op = "send-request"
  /\ resp' = [op |-> "send-rendered", request |-> resp,
              processedSubject |-> replaceEmailVariables(resp.subject, resp.variables)]
  /\ UNCHANGED <<now, steps, assignments, outbox, cron, sentOk, parked, creating, delivered, fired>>

NextRender == Render

RenderSpec == InitRender /\ [][NextRender]_vars

\* ---------------------------------------------------------------- traceOperation
\* what the wrapped operation comes to when it is awaited
OperationOutcomes ==
  {[kind |-> "resolves", value |-> v] : v \in {"test-result", "done"}}
    \cup {[kind |-> "rejects", value |-> e] : e \in {"Test error", "Other error"}}

TraceOptions ==
  {[name |-> n, userId |-> u, input |-> i] :
     n \in {"test", "test-op"}, u \in {"none", "user-123"}, i \in {"none", "query"}}

\* the error of a langfuse.flushAsync() that rejects
FlushError == "Flush error"

\* a call traceOperation(options, operation) about to run
TraceCalls ==
  {[op |-> "trace", pc |-> "start", options |-> o, operation |-> f,
    calls |-> 0, updates |-> <<>>, flushes |-> 0, error |-> "none",
    settled |-> [kind |-> "pending", value |-> "none"]] :
     o \in TraceOptions, f \in OperationOutcomes}

InitTrace ==
  /\ now = 0
  /\ steps = [s \in SequenceIds |-> <<0>>]
  /\ assignments = <<>>
  /\ outbox = <<>>
  /\ cron = CronIdle
  /\ resp \in TraceCalls
  /\ sentOk = <<>>
  /\ parked = CronIdle
  /\ creating = <<>>
  /\ delivered = {}
  /\ fired = FALSE

\* const trace = langfuse.trace({ ... }); const startTime = Date.now()
TraceStart ==
  /\ resp.op = "trace"
  /\ resp.pc = "start"
  /\ resp' = [resp EXCEPT !.pc = "operation"]
  /\ UNCHANGED <<now, steps, assignments, outbox, cron, sentOk, parked, creating, delivered, fired>>

\* const result = await operation(), inside try
TraceAwaitOperation ==
  /\ resp.op = "trace"
  /\ resp.pc = "operation"
  /\ resp' = IF resp.operation.kind = "resolves"
               THEN [resp EXCEPT !.calls = @ + 1, !.pc = "try"]
               ELSE [resp EXCEPT !.calls = @ + 1, !.pc = "catch",
                                 !.error = resp.operation.value]
  /\ UNCHANGED <<now, steps, assignments, outbox, cron, sentOk, parked, creating, delivered, fired>>

\* trace.update({ ... status: 'success' }); await langfuse.flushAsync();
\* return result: still inside try, so a flush that rejects goes to catch
TraceSuccess ==
  /\ resp.op = "trace"
  /\ resp.pc = "try"
  /\ \E flushOk \in BOOLEAN :
       resp' = IF flushOk
                 THEN [resp EXCEPT !.updates = Append(@, "success"), !.flushes = @ + 1,
                                   !.pc = "settled",
                                   !.settled = [kind |-> "resolved",
                                                value |-> resp.operation.value]]
                 ELSE [resp EXCEPT !.updates = Append(@, "success"), !.flushes = @ + 1,
                                   !.pc = "catch", !.error = FlushError]
  /\ UNCHANGED <<now, steps, assignments, outbox, cron, sentOk, parked, creating, delivered, fired>>

\* catch (error) { trace.update({ ... status: 'error' }); await
\* langfuse.flushAsync(); throw error }
TraceCatch ==
  /\ resp.op = "trace"
  /\ resp.pc = "catch"
  /\ \E flushOk \in BOOLEAN :
       resp' = [resp EXCEPT !.updates = Append(@, "error"), !.flushes = @ + 1,
                            !.pc = "settled",
                            !.settled = [kind |-> "rejected",
                                         value |-> IF flushOk THEN resp.error
                                                              ELSE FlushError]]
  /\ UNCHANGED <<now, steps, assignments, outbox, cron, sentOk, parked, creating, delivered, fired>>

NextTrace ==
  \/ TraceStart
  \/ TraceAwaitOperation
  \/ TraceSuccess
  \/ TraceCatch

TraceSpec == InitTrace /\ [][NextTrace]_vars

\* ---------------------------------------------------------------- Assign, await by await
\* Concurrent calls of assignCompanyToSequence interleave at its awaits: the
\* lookup (findFirst) and the create are two separate queries.
MaxCalls == 2

\* mutant: the table rejects a second row for a (company, sequence) pair
CreateRow_UniquePair(rows, call, t) ==
  IF Existing(rows, call.companyId, call.sequenceId) # {}
    THEN rows
    ELSE Append(rows, NewAssignment(Len(rows) + 1, call.companyId, call.sequenceId,
                                    call.orgId, t))

\* prisma.companySequence.create({ data }) on the table as it is when the
\* query runs: CompanySequence has no unique index on the pair
CreateRow(rows, call, t) ==
  Append(rows, NewAssignment(Len(rows) + 1, call.companyId, call.sequenceId,
                             call.orgId, t))

\* a call from its start to the answer of findFirst: it throws, returns the
\* existing row, or goes on to the create
AssignLookup(companyId, sequenceId, orgId) ==
  /\ cron.pc = "idle"
  /\ Len(creating) < MaxCalls
  /\ IF companyId \notin CompanyIds
       THEN /\ resp' = [op |-> "assign", ok |-> FALSE, error |-> "Company not found"]
            /\ UNCHANGED creating
     ELSE IF sequenceId \notin SequenceIds
       THEN /\ resp' = [op |-> "assign", ok |-> FALSE, error |-> "Email sequence not found"]
            /\ UNCHANGED creating
     ELSE IF Existing(assignments, companyId, sequenceId) # {}
       THEN /\ resp' = [op |-> "assign", ok |-> TRUE,
                        id |-> FirstOf(Existing(assignments, companyId, sequenceId))]
            /\ UNCHANGED creating
     ELSE /\ creating' = Append(creating, [companyId |-> companyId,
                                           sequenceId |-> sequenceId, orgId |-> orgId])
          /\ resp' = NoResponse
  /\ UNCHANGED <<now, steps, assignments, outbox, cron, sentOk, parked, delivered, fired>>

\* the create of the k-th call that is past its lookup, and its return
AssignCreate(k) ==
  /\ k \in 1..Len(creating)
  /\ assignments' = CreateRow(assignments, creating[k], now)
  /\ sentOk' = GrownSentOk(assignments')
  /\ creating' = SubSeq(creating, 1, k - 1) \o SubSeq(creating, k + 1, Len(creating))
  /\ resp' = [op |-> "assign", ok |-> TRUE, id |-> Len(assignments')]
  /\ UNCHANGED <<now, steps, outbox, cron, parked, delivered, fired>>

AssignBegin ==
  \E companyId \in CompanyIds \cup {UnknownCompanyId},
     sequenceId \in SequenceIds \cup {UnknownSequenceId},
     orgId \in OrgIds :
    AssignLookup(companyId, sequenceId, orgId)

AssignFinish == \E k \in 1..MaxCalls : AssignCreate(k)

NextAssignRace == AssignBegin \/ AssignFinish

AssignRaceSpec == Init /\ [][NextAssignRace]_vars

\* ---------------------------------------------------------------- two invocations
\* Two requests to the trigger endpoint run as two calls of GET, each from
\* one await to the next, and either may be the one to go on: cron is the
\* local state of the invocation that takes the next step, parked that of
\* the other one. Assign and pause run when the invocation in cron is not
\* inside a pass, whatever the parked one is doing.
Switch ==
  /\ cron # parked
  /\ cron' = parked
  /\ parked' = cron
  /\ resp' = NoResponse
  /\ UNCHANGED <<now, steps, assignments, outbox, sentOk, creating, delivered, fired>>

NextTwoPass ==
  \/ Assign
  \/ Pause
  \/ Switch
  \/ CronStart
  \/ CronSend
  \/ CronUpdate
  \/ CronCatch
  \/ CronRespond

TwoPassSpec == Init /\ [][NextTwoPass]_vars

\* ---------------------------------------------------------------- deliveries
\* the loop's call of sendScheduledEmail, with the (row, step) pair written
\* down when the provider call of the send endpoint returned (mode nango)
CronSendRecorded ==
  /\ sendScheduledEmail
  /\ delivered' =
       IF /\ Len(cron'.attempts) = Len(cron.attempts) + 1
          /\ cron'.attempts[Len(cron'.attempts)] = "nango"
         THEN delivered \cup {<<cron.batch[cron.idx].id, cron.batch[cron.idx].currentStep>>}
         ELSE delivered
  /\ UNCHANGED fired

\* passes one after another, none overlapping anything
NextDelivery ==
  \/ Assign
  \/ CronStart
  \/ CronSendRecorded
  \/ CronUpdate
  \/ CronCatch
  \/ CronRespond

DeliverySpec == Init /\ [][NextDelivery]_vars

\* ---------------------------------------------------------------- daily trigger
\* The trigger is an external schedule. Here it is one that lets no calendar
\* day go by without a pass that answered with success: the clock crosses
\* midnight only when such a pass has answered since the last midnight.
TickDaily ==
  /\ StartOfDay(now + 1) # StartOfDay(now) => fired
  /\ ClockTick
  /\ fired' = IF StartOfDay(now + 1) # StartOfDay(now) THEN FALSE ELSE fired

CronRespondDaily ==
  /\ RespondSuccess
  /\ fired' = TRUE

NextDaily ==
  \/ TickDaily
  \/ Assign
  \/ CronStart
  \/ CronSend
  \/ CronUpdate
  \/ CronCatch
  \/ CronRespondDaily

DailySpec == Init /\ [][NextDaily]_vars

\* ================================================================ claims
\* calendar day of a timestamp, and the first tick of that day
Day(t) == t \div TicksPerDay
DayStart(t) == Day(t) * TicksPerDay

RowIds == 1..Len(assignments)

\* rows of a (company, sequence) pair, whatever their status
RowsFor(rows, companyId, sequenceId) ==
  {i \in 1..Len(rows) :
     rows[i].companyId = companyId /\ rows[i].sequenceId = sequenceId}

\* a step in which the due-item selector returned its result
SelectStep == cron.pc = "idle" /\ cron'.pc # "idle"

\* the selector's result of that step holds row i
Selected(i) == \E j \in 1..Len(cron'.batch) : cron'.batch[j].id = i

\* a step in which the cron applied the progression update of its current item
UpdateApplied == cron.pc = "update" /\ cron'.sentCount = cron.sentCount + 1

\* a step in which the cron's per-item catch block ran
CatchStep == cron.pc = "catch" /\ cron'.pc # "catch"

\* the Run Log holds a failed entry for the step row r is at
HasFailedEntry(r) ==
  \E k \in 1..Len(outbox) :
    /\ outbox[k].status = "failed"
    /\ outbox[k].companyId = r.companyId
    /\ outbox[k].sequenceId = r.sequenceId
    /\ outbox[k].stepIndex = r.currentStep

\* ---------------------------------------------------------------- C1
\* C1: when the cron applies the progression update after sending step i of
\* an active assignment whose sequence has len steps, then if i+1 < len the
\* row is at step i+1, next-send is now + steps[i+1].delay days and status is
\* active; otherwise status is completed, completed-at is now and next-send
\* is null.
C1_ProgressionOnSuccess ==
  [][UpdateApplied =>
       LET e == cron.batch[cron.idx]
           i == assignments[e.id].currentStep
           len == Len(steps[e.sequenceId])
           r == assignments'[e.id]
       IN assignments[e.id].status = "active" =>
            IF i + 1 < len
              THEN /\ r.currentStep = i + 1
                   /\ r.nextSendAt = now + steps[e.sequenceId][i + 2] * TicksPerDay
                   /\ r.status = "active"
                   /\ r.completedAt = NULL
              ELSE /\ r.status = "completed"
                   /\ r.completedAt = now
                   /\ r.nextSendAt = NULL
                   /\ r.currentStep = i]_vars

\* a pass has just completed an assignment that it had advanced on an earlier
\* pass, over a step with a delay
C1_Witness ==
  /\ cron.pc = "respond"
  /\ cron.sentCount = 1
  /\ \E i \in RowIds :
       /\ assignments[i].status = "completed"
       /\ assignments[i].completedAt = now
       /\ assignments[i].currentStep = 1
       /\ steps[assignments[i].sequenceId][2] > 0

\* ---------------------------------------------------------------- C2
DispatchFailures == {"mock_provider_error", "no_connection", "network_error"}

\* entries the Run Log gained since the pass started that record a failure of item e
FailedEntriesFor(e) ==
  {k \in (cron.logStart + 1)..Len(outbox) : outbox[k] = LogFailed(e)}

\* C2: at the end of a pass, every item whose dispatch attempt failed (the
\* provider call errored, the fetch errored, or the endpoint answered non-OK)
\* has its row's status, step index and next-send as selected, and exactly
\* one failed Run Log entry was written for it.
C2_NoAdvanceOnFailure ==
  cron.pc = "respond" =>
    \A j \in 1..Len(cron.batch) :
      cron.attempts[j] \in DispatchFailures =>
        LET e == cron.batch[j]
            r == assignments[e.id]
        IN /\ r.status = e.status
           /\ r.currentStep = e.currentStep
           /\ r.nextSendAt = e.nextSendAt
           /\ Cardinality(FailedEntriesFor(e)) = 1

\* ---------------------------------------------------------------- C3
\* C3: no two rows share a (company, sequence) pair; after any Assign of an
\* existing company and sequence exactly one row exists for the pair; and an
\* Assign that finds a row for the pair returns that row's id and leaves the
\* table unchanged, whatever the row's status.
C3_IdempotentAssign ==
  [][/\ \A i, j \in 1..Len(assignments') :
          (/\ assignments'[i].companyId = assignments'[j].companyId
           /\ assignments'[i].sequenceId = assignments'[j].sequenceId) => i = j
     /\ \A c \in CompanyIds, s \in SequenceIds, o \in OrgIds :
          assignCompanyToSequence(c, s, o) =>
            /\ Cardinality(RowsFor(assignments', c, s)) = 1
            /\ resp'.ok
            /\ resp'.id \in RowsFor(assignments', c, s)
            /\ RowsFor(assignments, c, s) # {} =>
                 /\ assignments' = assignments
                 /\ resp'.id \in RowsFor(assignments, c, s)]_vars

\* a repeated Assign has just returned the id of a row that is completed
C3_Witness ==
  /\ resp.op = "assign"
  /\ resp.ok
  /\ assignments[resp.id].status = "completed"

\* ---------------------------------------------------------------- C4
\* C4: a selector pass at time now returns exactly the rows with status
\* active whose next-send lies on the calendar day of now, as copies of the
\* rows; next-send at yesterday's last tick or tomorrow's first tick is not
\* selected, next-send at today's first or last tick is selected when
\* active, and paused, completed or null-next-send rows are never selected.
C4_DueWindow ==
  [][SelectStep =>
       /\ \A j \in 1..Len(cron'.batch) :
            /\ cron'.batch[j].id \in RowIds
            /\ cron'.batch[j] = assignments[cron'.batch[j].id]
       /\ \A i \in RowIds :
            LET r == assignments[i]
            IN /\ Selected(i) <=>
                    (/\ r.status = "active"
                     /\ r.nextSendAt # NULL
                     /\ Day(r.nextSendAt) = Day(now))
               /\ r.nextSendAt = DayStart(now) - 1 => ~Selected(i)
               /\ r.nextSendAt = DayStart(now) + TicksPerDay => ~Selected(i)
               /\ (r.status = "active" /\ r.nextSendAt = DayStart(now)) => Selected(i)
               /\ (r.status = "active" /\ r.nextSendAt = DayStart(now) + TicksPerDay - 1)
                    => Selected(i)
               /\ (r.status # "active" \/ r.nextSendAt = NULL) => ~Selected(i)]_vars

\* a pass has returned nothing although an active row's next-send is the
\* last tick of yesterday
C4_Witness ==
  /\ cron.pc = "respond"
  /\ cron.batch = <<>>
  /\ \E i \in RowIds :
       /\ assignments[i].status = "active"
       /\ assignments[i].nextSendAt = DayStart(now) - 1

\* ---------------------------------------------------------------- C5
\* C5: Remove/pause sets the status of the pair's rows to paused and changes
\* nothing else: step index, next-send and every other field stay, no row and
\* no Run Log entry is deleted or created; and no selector pass returns a
\* paused row.
C5_PauseIndependence ==
  [][/\ \A c \in CompanyIds, s \in SequenceIds :
          removeCompanyFromSequence(c, s) =>
            /\ Len(assignments') = Len(assignments)
            /\ outbox' = outbox
            /\ \A i \in RowIds :
                 IF i \in RowsFor(assignments, c, s)
                   THEN assignments'[i] = [assignments[i] EXCEPT !.status = "paused"]
                   ELSE assignments'[i] = assignments[i]
     /\ SelectStep =>
          \A i \in RowIds : assignments[i].status = "paused" => ~Selected(i)]_vars

\* a pass has returned nothing for a row paused mid-sequence whose next-send
\* is today
C5_Witness ==
  /\ cron.pc = "respond"
  /\ cron.batch = <<>>
  /\ \E i \in RowIds :
       /\ assignments[i].status = "paused"
       /\ assignments[i].currentStep >= 1
       /\ assignments[i].nextSendAt # NULL
       /\ Day(assignments[i].nextSendAt) = Day(now)

\* ---------------------------------------------------------------- C6
\* C6: for a row that was never paused, on a sequence of N steps: it has had
\* at most N progression updates; after N of them it is completed with step
\* index N-1 and null next-send; with fewer it is active at the step whose
\* index is the number of updates.
C6_ProgressionMonotonicity ==
  \A i \in RowIds :
    LET r == assignments[i]
        N == Len(steps[r.sequenceId])
    IN r.status # "paused" =>
         /\ sentOk[i] <= N
         /\ sentOk[i] = N =>
              /\ r.status = "completed"
              /\ r.currentStep = N - 1
              /\ r.nextSendAt = NULL
         /\ sentOk[i] < N =>
              /\ r.status = "active"
              /\ r.currentStep = sentOk[i]
              /\ r.nextSendAt # NULL

\* a row on a sequence of two steps is completed after two updates
C6_Witness ==
  \E i \in RowIds :
    /\ Len(steps[assignments[i].sequenceId]) = 2
    /\ sentOk[i] = 2
    /\ assignments[i].status = "completed"

C8_InitialStateFirstSend ==
  [][/\ \A c \in CompanyIds, s \in SequenceIds, o \in OrgIds :
          (assignCompanyToSequence(c, s, o) /\ RowsFor(assignments, c, s) = {}) =>
            /\ Len(assignments') = Len(assignments) + 1
            /\ assignments'[Len(assignments')] =
                 [id |-> Len(assignments) + 1, companyId |-> c, sequenceId |-> s,
                  orgId |-> o, currentStep |-> 0, status |-> "active",
                  startedAt |-> now, nextSendAt |-> now, completedAt |-> NULL]
     /\ SelectStep =>
          \A i \in RowIds :
            (/\ assignments[i].status = "active"
             /\ assignments[i].currentStep = 0
             /\ assignments[i].nextSendAt = assignments[i].startedAt
             /\ ~HasFailedEntry(assignments[i]))
              => Selected(i)]_vars

\* ---------------------------------------------------------------- C9
\* C9: an update at time T that schedules the next step, of delay d days,
\* sets next-send on calendar day day(T)+d; and for an active row past step 0
\* whose next step has delay d, scheduled on day D+d, no selector pass on a
\* day strictly between D and D+d returns it and every pass on day D+d does.
C9_SchedulingBetweenSteps ==
  [][/\ UpdateApplied =>
          LET e == cron.batch[cron.idx]
              r == assignments'[e.id]
          IN r.status = "active" =>
               Day(r.nextSendAt) = Day(now) + steps[r.sequenceId][r.currentStep + 1]
     /\ SelectStep =>
          \A i \in RowIds :
            LET r == assignments[i]
                d == steps[r.sequenceId][r.currentStep + 1]
                D == Day(r.nextSendAt) - d
            IN (r.status = "active" /\ r.currentStep >= 1) =>
                 /\ (D < Day(now) /\ Day(now) < D + d) => ~Selected(i)
                 /\ Day(now) = D + d => Selected(i)]_vars

\* a pass has selected a row at a step of delay >= 2 days, so at least one
\* whole calendar day lay between the send and this pass
C9_Witness ==
  /\ cron.pc = "send"
  /\ cron.batch[cron.idx].currentStep >= 1
  /\ steps[cron.batch[cron.idx].sequenceId][cron.batch[cron.idx].currentStep + 1] >= 2

\* ---------------------------------------------------------------- C10
\* C10: once a row's status is completed, no step changes it.
C10_CompletedIsTerminal ==
  [][\A i \in RowIds :
       assignments[i].status = "completed" => assignments'[i].status = "completed"]_vars
\* ---------------------------------------------------------------- C11
\* C11: once a row's status is paused, no step (an Assign, or a step of a
\* cron pass, a pass that had selected the row before the pause included)
\* changes its status, its step index or its next-send.
C11_PausedIsTerminal ==
  [][\A i \in RowIds :
       assignments[i].status = "paused" =>
         /\ assignments'[i].status = "paused"
         /\ assignments'[i].currentStep = assignments[i].currentStep
         /\ assignments'[i].nextSendAt = assignments[i].nextSendAt]_vars

\* ---------------------------------------------------------------- C12
\* entries the Run Log gains in a step
NewEntries == {k \in 1..Len(outbox') : k > Len(outbox)}

\* the step is a dispatch by the cron whose provider call returned
CronProviderReturned ==
  /\ cron.pc = "send"
  /\ Len(cron'.attempts) = Len(cron.attempts) + 1
  /\ cron'.attempts[Len(cron'.attempts)] = "nango"

\* the step is a direct request to the send endpoint whose provider call returned
DirectProviderReturned == resp'.op = "send" /\ resp'.provider = "returned"

\* C12: a Run Log entry with status sent is created only in a step whose
\* provider call returned success: never for a provider call that threw or
\* was not made (client not configured, no connection, mock fallback, fetch
\* error).
C12_NoFalseSuccess ==
  [][\A k \in NewEntries :
       outbox'[k].status = "sent" => (CronProviderReturned \/ DirectProviderReturned)]_vars

\* sent entries the Run Log gained since the pass started
SentSincePassStart ==
  {k \in 1..Len(outbox) : k > cron.logStart /\ outbox[k].status = "sent"}

\* a pass ends whose send fell back to the mock and left no sent entry, after
\* a send whose provider call returned and was logged
C12_Witness ==
  /\ cron.pc = "respond"
  /\ cron.attempts = <<"mock_provider_error">>
  /\ cron.sentCount = 1
  /\ SentSincePassStart = {}
  /\ cron.logStart = 1
  /\ outbox[1].status = "sent"

\* ---------------------------------------------------------------- C13
\* failed entries the Run Log gained since the pass started
FailedSincePassStart ==
  {k \in 1..Len(outbox) : k > cron.logStart /\ outbox[k].status = "failed"}

\* C13: when a cron pass ends, the Run Log has gained as many entries as the
\* pass processed due assignments, a sent entry for each send counted as
\* sent and a failed entry for each counted as failed; and no step modifies
\* or deletes an entry that exists.
C13_OneEntryPerAttempt ==
  [][/\ cron.pc = "respond" =>
          /\ Len(outbox) - cron.logStart = Len(cron.batch)
          /\ Cardinality(SentSincePassStart) = cron.sentCount
          /\ Cardinality(FailedSincePassStart) = cron.errorCount
     /\ Len(outbox') >= Len(outbox)
     /\ \A k \in 1..Len(outbox) : outbox'[k] = outbox[k]]_vars

\* ---------------------------------------------------------------- C14
\* a step that ends a cron pass, by either response
PassEnds == cron.pc # "idle" /\ cron'.pc = "idle"

\* items of the pass whose dispatch attempt failed
FailedDispatches == {j \in 1..Len(cron.attempts) : cron.attempts[j] \in DispatchFailures}

\* C14: a pass in which the dispatch of some due assignment failed (provider
\* error, fetch error or endpoint error) still ends with success true: every
\* item of the batch was attempted, each failed dispatch is counted in failed
\* and has a failed Run Log entry.
C14_DispatchErrorsDoNotAbort ==
  [][(PassEnds /\ FailedDispatches # {}) =>
       /\ resp'.success
       /\ resp'.processed = Len(cron.batch)
       /\ Len(cron.attempts) = Len(cron.batch)
       /\ resp'.failed >= Cardinality(FailedDispatches)
       /\ \A j \in FailedDispatches : FailedEntriesFor(cron.batch[j]) # {}]_vars

\* ---------------------------------------------------------------- C15
\* the step is a cron invocation that ends where it starts: the selector threw
SelectorFails == cron.pc = "idle" /\ resp'.op = "cron"

\* C15: when the due-item selector query fails, the invocation answers
\* success false with HTTP 500, and nothing was dispatched, no assignment was
\* modified and no Run Log entry was written.
C15_SelectorFailureIsFatal ==
  [][SelectorFails =>
       /\ ~resp'.success
       /\ resp'.status = 500
       /\ cron' = cron
       /\ assignments' = assignments
       /\ outbox' = outbox
       /\ sentOk' = sentOk]_vars

\* an invocation has answered 500 while an assignment that was never sent
\* is due today
C15_Witness ==
  /\ resp = [op |-> "cron", success |-> FALSE, status |-> 500]
  /\ cron.pc = "idle"
  /\ outbox = <<>>
  /\ \E i \in RowIds :
       /\ assignments[i].status = "active"
       /\ assignments[i].nextSendAt # NULL
       /\ Day(assignments[i].nextSendAt) = Day(now)
       /\ sentOk[i] = 0

\* ---------------------------------------------------------------- C16
\* the step is an assign-companies request that reached the loop
BatchRan == resp'.op = "assign-companies" /\ resp'.status \in {200, 500}

\* the errors the response of that step carries
BatchErrors == IF resp'.status = 200 THEN resp'.errors ELSE resp'.details

\* the ids of the rows the response returns (none when all failed)
BatchResults == IF resp'.status = 200 THEN resp'.results ELSE <<>>

ErrorFor(companyId) == \E e \in 1..Len(BatchErrors) : BatchErrors[e].companyId = companyId

AssignedIn(companyId) ==
  \E i \in 1..Len(assignments') :
    /\ assignments'[i].companyId = companyId
    /\ \E r \in 1..Len(BatchResults) : BatchResults[r] = i

\* C16: after the loop of the assign-companies request, every submitted id
\* is either in errors under its own id or has a row that the results
\* return, an unknown id is in errors, an error on one id leaves the ids
\* after it assigned, every error names a submitted id, and a success
\* response has assigned + failed = number of ids submitted, assigned =
\* length of results and failed = length of errors.
C16_BatchIsolatesErrors ==
  [][BatchRan =>
       LET ids == resp'.request.companyIds.ids
       IN /\ \A k \in 1..Len(ids) :
               /\ ErrorFor(ids[k]) \/ AssignedIn(ids[k])
               /\ ids[k] \notin CompanyIds => ErrorFor(ids[k])
               /\ (ids[k] \in CompanyIds /\ ~ErrorFor(ids[k])) => AssignedIn(ids[k])
          /\ \A e \in 1..Len(BatchErrors) : \E k \in 1..Len(ids) : ids[k] = BatchErrors[e].companyId
          /\ Len(BatchResults) + Len(BatchErrors) = Len(ids)
          /\ resp'.status = 200 =>
               /\ resp'.success
               /\ resp'.assigned + resp'.failed = Len(ids)
               /\ resp'.assigned = Len(resp'.results)
               /\ resp'.failed = Len(resp'.errors)]_vars

\* a request for an unknown id followed by a known one has answered success:
\* the unknown id is the one error, the known one got its row
C16_Witness ==
  /\ resp.op = "assign-companies"
  /\ resp.status = 200
  /\ resp.request.companyIds.ids = <<"cX", "c2">>
  /\ resp.assigned = 1
  /\ resp.failed = 1
  /\ resp.errors = <<[companyId |-> "cX", error |-> "Company not found"]>>
  /\ \E i \in RowIds : assignments[i].companyId = "c2" /\ resp.results = <<i>>

\* ---------------------------------------------------------------- C17
\* C17: an assign-companies request without a user is answered 401; one
\* with a user whose companyIds is missing, not an array or empty, or whose
\* sequenceId is missing, is answered 400; both before any call into the data
\* layer, with the table unchanged.  Any other request is answered 500 when
\* every one of its per-company assignments failed and with the success
\* response when at least one succeeded.
C17_ApiRejections ==
  [][resp'.op = "assign-companies" =>
       LET rq == resp'.request
           badIds == rq.companyIds.kind # "array" \/ Len(rq.companyIds.ids) = 0
           badSequence == rq.sequenceId = ""
       IN /\ ~rq.user => resp'.status = 401
          /\ (rq.user /\ (badIds \/ badSequence)) => resp'.status = 400
          /\ resp'.status \in {400, 401} =>
               /\ resp'.calls = 0
               /\ assignments' = assignments
               /\ sentOk' = sentOk
          /\ (rq.user /\ ~badIds /\ ~badSequence) =>
               /\ resp'.status \in {200, 500}
               /\ resp'.status = 500 =>
                    /\ Len(resp'.details) = Len(rq.companyIds.ids)
                    /\ assignments' = assignments
               /\ resp'.status = 200 =>
                    /\ resp'.success
                    /\ resp'.assigned >= 1]_vars

\* a request for a known and an unknown company has been answered 500: the
\* queries for the known one threw, so both items failed
C17_Witness ==
  /\ resp.op = "assign-companies"
  /\ resp.status = 500
  /\ resp.request.companyIds.ids = <<"c1", "cX">>
  /\ resp.details = <<[companyId |-> "c1", error |-> "Database error"],
                      [companyId |-> "cX", error |-> "Company not found"]>>

\* ---------------------------------------------------------------- C18
\* C18: the tenant of every assignment row is the tenant of its company and
\* of its sequence (an Assign for a company or sequence of another tenant than
\* the orgId passed creates no row).
C18_TenantScoped ==
  \A i \in RowIds :
    /\ assignments[i].orgId = CompanyOrg[assignments[i].companyId]
    /\ assignments[i].orgId = SequenceOrg[assignments[i].sequenceId]

\* ---------------------------------------------------------------- C19
\* C19: the send endpoint uses the connection the lookup found for the
\* sending user; when the lookup found none it uses the configured default
\* connection; when there is neither it answers an error 'no connection':
\* status 500, no success and no mode, no provider call, no Run Log entry.
C19_ConnectionResolution ==
  [][resp'.op = "send" =>
       LET rq == resp'.request
           found == rq.lookup \notin {"none", "error"}
           expected == IF found THEN rq.lookup ELSE rq.defaultConnection
       IN /\ resp'.connectionId = expected
          /\ expected = "none" =>
               /\ resp'.status = 500
               /\ ~resp'.success
               /\ resp'.error = "No Gmail connection found"
               /\ resp'.mode = "none"
               /\ resp'.provider = "not_called"
               /\ outbox' = outbox
          /\ resp'.provider # "not_called" => expected # "none"]_vars

\* with sent entries in the Run Log already, a request for a user without a
\* connection and with no default connection set has been answered 500
C19_Witness ==
  /\ resp.op = "send"
  /\ resp.request = [lookup |-> "none", defaultConnection |-> "none"]
  /\ resp.status = 500
  /\ Len(outbox) >= 1

\* ---------------------------------------------------------------- C20
\* C20 as stated: without a provider connection the send endpoint answers
\* with the mock success response, and a success response has mode nango
\* exactly when the provider call returned and mode mock otherwise.
C20_MockWhenNoConnection ==
  [][resp'.op = "send" =>
       /\ resp'.connectionId = "none" => (resp'.success /\ resp'.mode = "mock")
       /\ resp'.success =>
            /\ resp'.mode = "nango" <=> resp'.provider = "returned"
            /\ resp'.mode = "mock" <=> resp'.provider # "returned"]_vars

\* C20 amended: with a connection resolved, the send endpoint answers with
\* the mock success response when the provider client is not configured or
\* the provider call throws; with no connection it answers an error that
\* carries no mode; and a success response has mode nango exactly when the
\* provider call returned and mode mock otherwise.
C20_MockIsDistinguishable ==
  [][resp'.op = "send" =>
       /\ (resp'.connectionId # "none" /\ resp'.provider \in {"not_called", "threw"}) =>
            /\ resp'.success
            /\ resp'.status = 200
            /\ resp'.mode = "mock"
       /\ resp'.connectionId = "none" => (~resp'.success /\ resp'.mode = "none")
       /\ resp'.success =>
            /\ resp'.mode \in {"nango", "mock"}
            /\ resp'.mode = "nango" <=> resp'.provider = "returned"
            /\ resp'.mode = "mock" <=> resp'.provider # "returned"]_vars

\* a request whose provider call threw has been answered with the mock
\* success, and the Run Log holds no entry
C20_Witness ==
  /\ resp.op = "send"
  /\ resp.success
  /\ resp.mode = "mock"
  /\ resp.provider = "threw"
  /\ outbox = <<>>

\* ---------------------------------------------------------------- C21
\* the text the placeholder {{key}} stands for under a mapping
Mapped(key, variables) ==
  IF variables[key] = <<>> THEN << <<"bracketed", key>> >> ELSE variables[key]

\* every placeholder replaced by its mapped text, everything else kept
RECURSIVE Substituted(_, _)
Substituted(str, variables) ==
  IF str = <<>> THEN <<>>
  ELSE (IF Head(str)[1] = "placeholder" THEN Mapped(Head(str)[2], variables) ELSE <<Head(str)>>)
         \o Substituted(Tail(str), variables)

\* C21: the rendered subject is the template with every occurrence of
\* {{name}} replaced by the mapped value when that value is non-empty and by
\* [name] when it is missing or falsy, and with all other text unchanged.
C21_SubstitutionCompleteness ==
  resp.op = "send-rendered" =>
    resp.processedSubject = Substituted(resp.request.subject, resp.request.variables)

\* ---------------------------------------------------------------- C22
\* C22: when traceOperation has settled, the operation was invoked exactly
\* once; if the operation resolved, traceOperation resolved to the same
\* value after one success update and one flush; if it rejected,
\* traceOperation rejected with the same error after one error update and
\* one flush.
C22_TraceIsTransparent ==
  (resp.op = "trace" /\ resp.pc = "settled") =>
    /\ resp.calls = 1
    /\ resp.flushes = 1
    /\ resp.operation.kind = "resolves" =>
         /\ resp.settled = [kind |-> "resolved", value |-> resp.operation.value]
         /\ resp.updates = <<"success">>
    /\ resp.operation.kind = "rejects" =>
         /\ resp.settled = [kind |-> "rejected", value |-> resp.operation.value]
         /\ resp.updates = <<"error">>

\* ---------------------------------------------------------------- C23
\* the rows of the table for one (company, sequence) pair
PairRowsOf(rows, companyId, sequenceId) ==
  {i \in 1..Len(rows) :
     rows[i].companyId = companyId /\ rows[i].sequenceId = sequenceId}

PairRows(companyId, sequenceId) == PairRowsOf(assignments, companyId, sequenceId)

\* C23: the lookup and the create of Assign are not atomic and nothing in
\* storage enforces one row per pair: every call that passed its lookup adds
\* a row for its pair when its create runs, whatever the table holds by then,
\* so two concurrent calls for one pair leave two rows for it.
C23_CreateAfterLookupAlwaysAddsRow ==
  [][Len(creating') < Len(creating)
       => /\ Len(assignments') = Len(assignments) + 1
          /\ \E k \in 1..Len(creating) :
               /\ assignments'[Len(assignments')].companyId = creating[k].companyId
               /\ assignments'[Len(assignments')].sequenceId = creating[k].sequenceId
               /\ Cardinality(PairRowsOf(assignments', creating[k].companyId,
                                          creating[k].sequenceId)) =
                    Cardinality(PairRows(creating[k].companyId, creating[k].sequenceId)) + 1]_vars

\* both calls have returned and the pair has two rows
C23_Witness ==
  /\ creating = <<>>
  /\ \E companyId \in CompanyIds, sequenceId \in SequenceIds :
       Cardinality(PairRows(companyId, sequenceId)) = 2

\* ---------------------------------------------------------------- C24
\* the item the running pass is working on
CurrentItem == cron.batch[cron.idx]

\* the item's snapshot is at the last step of its sequence
AtLastStep(e) == e.currentStep + 1 >= StepCount(e.sequenceId)

\* C24: a pause that lands between a pass's selection of a row and the
\* pass's progression update of it is overwritten by that update when the
\* step sent was the last one: the row ends completed, not paused. (After
\* any other step the status stays paused while the step index and the
\* next-send still move.)
C24_LateUpdateOverwritesPause ==
  [][(UpdateApplied /\ assignments[CurrentItem.id].status = "paused") =>
       LET e == CurrentItem
       IN IF AtLastStep(e)
            THEN /\ assignments'[e.id].status = "completed"
                 /\ assignments'[e.id].completedAt = now
                 /\ assignments'[e.id].nextSendAt = NULL
            ELSE /\ assignments'[e.id].status = "paused"
                 /\ assignments'[e.id].currentStep = e.currentStep + 1
                 /\ assignments'[e.id].nextSendAt # NULL]_vars

\* the pause has just returned for a row whose last step the running pass
\* has sent and is about to record
C24_Witness ==
  /\ cron.pc = "update"
  /\ resp.op = "pause"
  /\ resp.count > 0
  /\ assignments[CurrentItem.id].status = "paused"
  /\ AtLastStep(CurrentItem)

\* ---------------------------------------------------------------- C25
\* the step is a call of the send endpoint for row i that answered 200
DispatchedFor(i) ==
  /\ cron.pc = "send"
  /\ cron.batch[cron.idx].id = i
  /\ Len(cron'.attempts) = Len(cron.attempts) + 1
  /\ ResponseOk(cron'.attempts[Len(cron'.attempts)])

\* C25: once a row is paused no email is dispatched for it and its step
\* index does not move, also not by a pass that selected it before the pause.
C25_NoSendAfterPause ==
  [][\A i \in RowIds :
       assignments[i].status = "paused" =>
         /\ ~DispatchedFor(i)
         /\ assignments'[i].currentStep = assignments[i].currentStep]_vars

\* ---------------------------------------------------------------- C26
\* C26: in every step no row's step index decreases, and a progression
\* update applied after the send of a step that is not the last one leaves
\* the row's step index one above what it was.
C26_StepIndexMonotone ==
  [][/\ \A i \in RowIds : assignments'[i].currentStep >= assignments[i].currentStep
     /\ (UpdateApplied /\ ~AtLastStep(CurrentItem)) =>
          assignments'[CurrentItem.id].currentStep =
            assignments[CurrentItem.id].currentStep + 1]_vars

\* ---------------------------------------------------------------- C29
\* C29: an active row has a next-send and no completed-at; a completed row
\* has a completed-at and no next-send.
C29_StatusTimestampCoupling ==
  \A i \in RowIds :
    LET r == assignments[i]
    IN /\ r.status = "active" => (r.nextSendAt # NULL /\ r.completedAt = NULL)
       /\ r.status = "completed" => (r.nextSendAt = NULL /\ r.completedAt # NULL)

\* ---------------------------------------------------------------- C27
\* C27: with passes run one after another, the provider delivers no
\* (row, step index) pair that it already delivered in an earlier send, also
\* when a database write after a send failed.
C27_AtMostOnceDelivery ==
  [][CronProviderReturned =>
       <<CurrentItem.id, CurrentItem.currentStep>> \notin delivered]_vars

\* ---------------------------------------------------------------- C30
\* items of the running pass whose row is no longer as the pass selected it
UpdatedItems == {j \in 1..Len(cron.batch) : assignments[cron.batch[j].id] # cron.batch[j]}

\* rows that are due on the day of the clock
DueNow ==
  {i \in RowIds : /\ assignments[i].status = "active"
                  /\ assignments[i].nextSendAt # NULL
                  /\ Day(assignments[i].nextSendAt) = Day(now)}

\* C30: a pass selects as many items as rows are due when it starts, and the
\* success response of a pass reports processed = sent + failed, processed
\* the number of items selected and sent the number of items whose row the
\* pass updated.
C30_CountersConsistent ==
  [][/\ SelectStep => Len(cron'.batch) = Cardinality(DueNow)
     /\ (PassEnds /\ resp'.success) =>
          /\ resp'.processed = resp'.sent + resp'.failed
          /\ resp'.processed = Len(cron.batch)
          /\ resp'.sent = Cardinality(UpdatedItems)]_vars

\* a pass over two due rows has answered with one sent and one failed
C30_Witness ==
  /\ resp.op = "cron"
  /\ resp.success
  /\ resp.processed = 2
  /\ resp.sent = 1
  /\ resp.failed = 1
  /\ Cardinality({i \in RowIds : sentOk[i] = 1}) = 1

\* ---------------------------------------------------------------- C28
\* row i is active and the calendar day of its next-send is over: no pass of
\* today or of a later day selects it
Stranded(i) ==
  /\ assignments[i].status = "active"
  /\ assignments[i].nextSendAt # NULL
  /\ Day(assignments[i].nextSendAt) < Day(now)

\* C28: with a pass of the trigger on every calendar day, no reachable state
\* holds an active assignment that is outside today's and every later due
\* window (so every assignment that is never paused can still be selected,
\* sent and completed).
C28_NoActiveRowOutsideEveryWindow ==
  \A i \in RowIds : ~Stranded(i)

\* a stranded row stays stranded: the clock does not go back, and nothing
\* but a pass that selected the row writes its next-send
StrandedIsPermanent ==
  [][\A i \in RowIds : Stranded(i) => Stranded(i)']_vars

====
